---- MODULE Spec2Model ----
(***************************************************************************)
(* Model of package input (src/unnamed/part_000): the live snapshot        *)
(* `polled`, the edge vectors, the history buffers with their tick         *)
(* indexing and the Serialize/Unserialize pair, and the State callback.    *)
(*                                                                         *)
(* A playerState ([ActionLast]bool) is written as the set of the indices   *)
(* that hold true; an inputState ([MaxPlayers]playerState) is a function   *)
(* from the port to such a set.  A Go slice is an address into `heap`, so  *)
(* that two slices sharing a backing array are two equal addresses.        *)
(* A Go panic leaves the partial writes in place and sets `panicked`.      *)
(*                                                                         *)
(* `video` holds the fields of the Video struct (src/unnamed/part_001)     *)
(* that SetPixelFormat, SetRotation, ResetRot, Refresh and ResetPitch use, *)
(* with the row length last passed to gl.PixelStorei.                      *)
(***************************************************************************)
EXTENDS Integers, Sequences, FiniteSets, TLC

VARIABLES polled, NewState, OldState, Released, Pressed,
          buffers, heap, tick, blob, panicked,
          prevNew, sampled, pollCount, lastOp, ringAtSave, opCount, video

vars == <<polled, NewState, OldState, Released, Pressed,
          buffers, heap, tick, blob, panicked,
          prevNew, sampled, pollCount, lastOp, ringAtSave, opCount, video>>

inputVars == <<polled, NewState, OldState, Released, Pressed, prevNew, sampled, pollCount>>

\* the variables of package input with the bookkeeping of its operations
inputPackage == <<inputVars, buffers, heap, tick, blob, panicked, ringAtSave, opCount>>

----------------------------------------------------------------------------
(* Program constants *)

MaxPlayers == 5
maxFrames == 60
localPlayerPort == 0

btn == 0
axis == 1

DeviceJoypad == 1
DeviceIDJoypadB == 0
DeviceIDJoypadUp == 4
DeviceIDJoypadDown == 5
DeviceIDJoypadLeft == 6
DeviceIDJoypadRight == 7
DeviceIDJoypadA == 8
DeviceIDJoypadR3 == 15

ActionMenuToggle == DeviceIDJoypadR3 + 1
ActionFullscreenToggle == DeviceIDJoypadR3 + 2
ActionShouldClose == DeviceIDJoypadR3 + 3
ActionFastForwardToggle == DeviceIDJoypadR3 + 4
ActionLast == DeviceIDJoypadR3 + 5

Players == 0 .. (MaxPlayers - 1)
Actions == 0 .. (ActionLast - 1)

\* glfw.Press
Press == 1

\* the outcome of a read: a value, or the panic of a failed index expression
Ok(v) == [ok |-> TRUE, val |-> v]
Panic == [ok |-> FALSE]

----------------------------------------------------------------------------
(* Bounds of the environment *)

\* polls per run
MaxPolls == 3
\* keys held down at the same time
MaxKeysDown == 2
\* joysticks are plugged on ports 0 .. MaxJoyPort, one at a time
MaxJoyPort == 1
\* buttons a plugged joystick reports
MaxButtons == 1
\* pixel formats and rotations a core asks for
MaxFormat == 3
MaxRot == 9
\* buttons and axes a joystick reports in the device-level specification
MaxPadButtons == 2
MaxAxes == 2
\* the range of ports, sub-indices and device kinds handed to State
MaxQueryPort == 5
MaxQueryIndex == 1
MaxDevice == 6
\* action ids handed to State beyond ActionLast
MaxIdBeyond == 1
\* ticks the clock runs through
MaxTick == 5
\* ring operations (setState, initializeBuffer, Serialize, Unserialize and
\* the loading of a save file) per run
MaxOps == 4
\* largest absolute tick or offset handed to index and getState
MaxOffset == 125
\* heap cells
NumAddr == 3
\* ports handed to setState and initializeBuffer: 0 .. MaxRingPort
MaxRingPort == 1
\* distinct one-bit vectors handed to setState
MaxVectors == 2
\* length of a save-state blob whose shape does not match
MismatchDepth == 45

----------------------------------------------------------------------------
(* Values *)

playerState == SUBSET Actions
ZeroPlayer == {}
ZeroInput == [p \in Players |-> ZeroPlayer]

\* Go's % truncates towards zero: the result takes the sign of the dividend
GoRem(a, b) == IF a >= 0 THEN a % b ELSE 0 - ((0 - a) % b)

\* a disconnected joystick: GetButtons and GetAxes return nil, GetName ""
NoJoystick == [name |-> "", buttons |-> <<>>, axes |-> <<>>]

SeqsUpTo(S, n) == UNION {[1 .. k -> S] : k \in 0 .. n}

----------------------------------------------------------------------------
(* Binding tables: the entries of keyBinds and joyBinds that the model uses *)

Bind(kind, idx, dir, th) == [kind |-> kind, index |-> idx, direction |-> dir, threshold |-> th]

\* physical key -> action, used for player 0 only
keyBinds == [k \in {"KeyDown", "KeyX", "KeyP"} |->
               CASE k = "KeyDown" -> DeviceIDJoypadDown
                 [] k = "KeyX" -> DeviceIDJoypadA
                 [] k = "KeyP" -> ActionMenuToggle]

\* device name -> (bind -> action); thresholds in tenths
PadBinds == (Bind(btn, 0, 0, 0) :> DeviceIDJoypadA) @@
            (Bind(btn, 1, 0, 0) :> DeviceIDJoypadA) @@
            (Bind(btn, 2, 0, 0) :> DeviceIDJoypadB) @@
            (Bind(axis, 0, -1, 5) :> DeviceIDJoypadLeft) @@
            (Bind(axis, 1, 1, 5) :> DeviceIDJoypadDown)

EmptyBinds == [k \in {} |-> 0]

joyBinds == ("pad" :> PadBinds) @@ ("bare" :> EmptyBinds)

\* faulty variant: a name without an entry falls back to the pad's bindings
LookupBinds_Default(name) == IF name \in DOMAIN joyBinds THEN joyBinds[name] ELSE PadBinds

\* jb := joyBinds[name]: a missing name yields the nil map
LookupBinds(name) == IF name \in DOMAIN joyBinds THEN joyBinds[name] ELSE EmptyBinds

HasBinding(js) == js.name \in DOMAIN joyBinds

----------------------------------------------------------------------------
(* Polling *)

\* the condition of one binding k against the sampled device js
\* faulty variant: a button in range counts as pressed whatever its value
BindMatches_AnyValue(k, js) ==
    IF k.kind = btn
    THEN k.index < Len(js.buttons)
    ELSE k.index < Len(js.axes)
         /\ k.direction * js.axes[k.index + 1] > k.threshold * k.direction

BindMatches(k, js) ==
    IF k.kind = btn
    THEN k.index < Len(js.buttons) /\ js.buttons[k.index + 1] = Press
    ELSE k.index < Len(js.axes)
         /\ k.direction * js.axes[k.index + 1] > k.threshold * k.direction

DPadX(a0) == IF a0 < -5 THEN {DeviceIDJoypadLeft}
             ELSE IF a0 > 5 THEN {DeviceIDJoypadRight} ELSE {}

DPadY(a1) == IF a1 > 5 THEN {DeviceIDJoypadDown}
             ELSE IF a1 < -5 THEN {DeviceIDJoypadUp} ELSE {}

\* the bits one player's device sets when the loop over its bindings completes
JoypadBits(js, mapAxisToDPad) ==
    LET jb == LookupBinds(js.name) IN
    IF Len(js.buttons) > 0
    THEN {jb[k] : k \in {b \in DOMAIN jb : BindMatches(b, js)}}
         \cup (IF mapAxisToDPad /\ DOMAIN jb # {}
               THEN DPadX(js.axes[1]) \cup DPadY(js.axes[2]) ELSE {})
    ELSE {}

\* the loop body reads axisState[0] and axisState[1] in its first iteration
JoypadPanics(js, mapAxisToDPad) ==
    /\ Len(js.buttons) > 0
    /\ DOMAIN LookupBinds(js.name) # {}
    /\ mapAxisToDPad
    /\ Len(js.axes) < 2

\* what the first iteration has written when it panics; the map's iteration
\* order is not defined, so any binding may be the first
JoypadPartial(js) ==
    LET jb == LookupBinds(js.name) IN
    {(IF BindMatches(k, js) THEN {jb[k]} ELSE {})
       \cup (IF Len(js.axes) >= 1 THEN DPadX(js.axes[1]) ELSE {}) : k \in DOMAIN jb}

\* faulty variant: a pressed key sets its bit for every player
pollKeyboard_AllPorts(pol, keys) ==
    [p \in Players |-> pol[p] \cup {keyBinds[k] : k \in keys}]

pollKeyboard(pol, keys) ==
    [pol EXCEPT ![localPlayerPort] = @ \cup {keyBinds[k] : k \in keys}]

\* the outcomes of pollJoypads on the snapshot pol: the ports are visited in
\* order and a panic stops the loop at the first port that raises it
pollJoypads(pol, joys, mapAxisToDPad) ==
    LET bad == {p \in Players : JoypadPanics(joys[p], mapAxisToDPad)} IN
    IF bad = {}
    THEN {[ok |-> TRUE,
           polled |-> [p \in Players |-> pol[p] \cup JoypadBits(joys[p], mapAxisToDPad)]]}
    ELSE LET q == CHOOSE p \in bad : \A r \in bad : p <= r IN
         {[ok |-> FALSE,
           polled |-> [p \in Players |->
                         IF p < q THEN pol[p] \cup JoypadBits(joys[p], mapAxisToDPad)
                         ELSE IF p = q THEN pol[p] \cup part
                         ELSE pol[p]]] : part \in JoypadPartial(joys[q])}

\* faulty variant: the previous state is ignored when computing Pressed
getPressedReleased_NoOld(new, old) ==
    [pressed |-> [p \in Players |-> {k \in Actions : k \in new[p]}],
     released |-> [p \in Players |-> {k \in Actions : k \notin new[p] /\ k \in old[p]}]]

getPressedReleased(new, old) ==
    [pressed |-> [p \in Players |-> {k \in Actions : k \in new[p] /\ k \notin old[p]}],
     released |-> [p \in Players |-> {k \in Actions : k \notin new[p] /\ k \in old[p]}]]

\* faulty variant: line 210 (OldState = NewState) is missing
PollReturn_StaleOld(pol) ==
    LET pr == getPressedReleased(pol, OldState) IN
    /\ NewState' = pol
    /\ Pressed' = pr.pressed
    /\ Released' = pr.released
    /\ UNCHANGED <<OldState, buffers, heap>>

\* faulty variant: Released is recomputed from the new state alone
PollReturn_ReleasedAll(pol) ==
    LET pr == getPressedReleased(pol, OldState) IN
    /\ NewState' = pol
    /\ Pressed' = pr.pressed
    /\ Released' = [p \in Players |-> OldState[p]]
    /\ OldState' = pol
    /\ UNCHANGED <<buffers, heap>>

\* lines 205-210: what Poll does once pollJoypads has returned
PollReturn(pol) ==
    LET pr == getPressedReleased(pol, OldState) IN
    /\ NewState' = pol
    /\ Pressed' = pr.pressed
    /\ Released' = pr.released
    /\ OldState' = pol
    /\ UNCHANGED <<buffers, heap>>

\* pollJoypads panicked: Poll is left before line 205
PollAbort ==
    UNCHANGED <<NewState, Pressed, Released, OldState, buffers, heap>>

\* faulty variant: line 202 (polled = inputState{}) is missing
Poll_Merges(keys, joys, mapAxisToDPad) ==
    /\ ~panicked
    /\ pollCount < MaxPolls
    /\ \E out \in pollJoypads(pollKeyboard(polled, keys), joys, mapAxisToDPad) :
         /\ polled' = out.polled
         /\ IF out.ok THEN PollReturn(out.polled) ELSE PollAbort
         /\ panicked' = ~out.ok
         /\ prevNew' = IF out.ok THEN NewState ELSE prevNew
         /\ pollCount' = IF out.ok THEN pollCount + 1 ELSE pollCount
    /\ sampled' = [keys |-> keys, joys |-> joys, mapAxisToDPad |-> mapAxisToDPad]
    /\ lastOp' = [op |-> "Poll"]
    /\ UNCHANGED <<tick, video, blob, ringAtSave, opCount>>

Poll(keys, joys, mapAxisToDPad) ==
    /\ ~panicked
    /\ pollCount < MaxPolls
    /\ \E out \in pollJoypads(pollKeyboard(ZeroInput, keys), joys, mapAxisToDPad) :
         /\ polled' = out.polled
         /\ IF out.ok THEN PollReturn(out.polled) ELSE PollAbort
         /\ panicked' = ~out.ok
         /\ prevNew' = IF out.ok THEN NewState ELSE prevNew
         /\ pollCount' = IF out.ok THEN pollCount + 1 ELSE pollCount
    /\ sampled' = [keys |-> keys, joys |-> joys, mapAxisToDPad |-> mapAxisToDPad]
    /\ lastOp' = [op |-> "Poll"]
    /\ UNCHANGED <<tick, video, blob, ringAtSave, opCount>>

----------------------------------------------------------------------------
(* Queries *)

\* faulty variant: the snapshot of the local player is returned for every port
getLatest_Local(port) == IF port \in Players THEN Ok(polled[localPlayerPort]) ELSE Panic

getLatest(port) == IF port \in Players THEN Ok(polled[port]) ELSE Panic

\* device&libretro.DeviceJoypad: DeviceJoypad is 1, the low bit of device
BitAnd1(device) == device % 2

\* faulty variant: the port is not validated
State_NoPortCheck(port, device, idx, id) ==
    IF id >= 255 \/ idx > 0
       \/ BitAnd1(device) # 1 \/ id > DeviceIDJoypadR3
    THEN Ok(0)
    ELSE IF ~getLatest(port).ok \/ id \notin Actions THEN Panic
         ELSE IF id \in getLatest(port).val THEN Ok(1) ELSE Ok(0)

State(port, device, idx, id) ==
    IF id >= 255 \/ idx > 0 \/ port >= MaxPlayers
       \/ BitAnd1(device) # 1 \/ id > DeviceIDJoypadR3
    THEN Ok(0)
    ELSE IF ~getLatest(port).ok \/ id \notin Actions THEN Panic
         ELSE IF id \in getLatest(port).val THEN Ok(1) ELSE Ok(0)

\* faulty variant: the call consumes the bit it reads
StateCall_Consumes(port, device, idx, id) ==
    /\ ~panicked
    /\ lastOp' = [op |-> "State", port |-> port, device |-> device, idx |-> idx,
                  id |-> id, ret |-> State(port, device, idx, id)]
    /\ panicked' = ~State(port, device, idx, id).ok
    /\ polled' = [p \in Players |-> IF p = port THEN polled[p] \ {id} ELSE polled[p]]
    /\ UNCHANGED <<NewState, OldState, Released, Pressed, prevNew, sampled, pollCount>>
    /\ UNCHANGED <<buffers, heap, tick, video, blob, ringAtSave, opCount>>

\* one call of State by the emulated core; lastOp records the arguments and
\* the value returned
StateCall(port, device, idx, id) ==
    /\ ~panicked
    /\ lastOp' = [op |-> "State", port |-> port, device |-> device, idx |-> idx,
                  id |-> id, ret |-> State(port, device, idx, id)]
    /\ panicked' = ~State(port, device, idx, id).ok
    /\ UNCHANGED inputVars
    /\ UNCHANGED <<buffers, heap, tick, video, blob, ringAtSave, opCount>>

----------------------------------------------------------------------------
(* Heap *)

Addr == 1 .. NumAddr
Nil == 0

SliceObj(elems) == [type |-> "[]inputState", elems |-> elems]
\* a value of any other dynamic type (nil included)
OtherObj == [type |-> "other", elems |-> <<>>]
FreeObj == [type |-> "free", elems |-> <<>>]

\* the lowest cell that neither the live slice nor the caller's blob refers to
NewAddr == CHOOSE a \in Addr : a \notin {buffers, blob} /\ \A b \in Addr : b \notin {buffers, blob} => a <= b

\* unreferenced cells are collected
Collect(h, live) == [a \in Addr |-> IF a \in live THEN h[a] ELSE FreeObj]

\* faulty variant: the copy lacks the last element of the original
CopyElems_Truncated(s) == SubSeq(s, 1, Len(s) - 1)

\* deepcopy.Anything: a new backing array whose elements are copied one by one
RECURSIVE CopyElems(_)
CopyElems(s) ==
    IF s = <<>> THEN <<>>
    ELSE <<[p \in DOMAIN Head(s) |-> {k \in Head(s)[p] : TRUE}]>> \o CopyElems(Tail(s))

DeepCopy(obj) == [type |-> obj.type, elems |-> CopyElems(obj.elems)]

----------------------------------------------------------------------------
(* History buffers *)

index(offset) == GoRem(maxFrames + (tick + offset), maxFrames)

\* line 87: the frame getState computes for a tick
frameOf(t) == GoRem(maxFrames + t, maxFrames)

\* buffers[port][frame] on the slice contents ring: buffers[port] is an
\* inputState, an array of MaxPlayers entries
getStateIn(ring, port, t) ==
    IF port >= Len(ring) \/ frameOf(t) < 0 \/ frameOf(t) >= MaxPlayers THEN Panic
    ELSE Ok(ring[port + 1][frameOf(t)])

getState(port, t) == getStateIn(heap[buffers].elems, port, t)

currentState(port) == getState(port, tick)

Ring == heap[buffers].elems

RingOpEnabled == ~panicked /\ opCount < MaxOps

Serialize ==
    /\ RingOpEnabled
    /\ LET a == NewAddr IN
       /\ heap' = Collect([heap EXCEPT ![a] = DeepCopy(heap[buffers])], {buffers, a})
       /\ blob' = a
    /\ ringAtSave' = [taken |-> TRUE, elems |-> Ring]
    /\ lastOp' = [op |-> "Serialize"]
    /\ opCount' = opCount + 1
    /\ UNCHANGED <<buffers, tick, video, panicked>>
    /\ UNCHANGED inputVars

\* faulty variant: the blob itself becomes the live slice, without a copy
Unserialize_Alias ==
    /\ RingOpEnabled
    /\ blob # Nil
    /\ IF heap[blob].type = "[]inputState"
       THEN /\ buffers' = blob
            /\ heap' = Collect(heap, {blob})
            /\ UNCHANGED panicked
       ELSE /\ panicked' = TRUE
            /\ UNCHANGED <<buffers, heap>>
    /\ lastOp' = [op |-> "Unserialize"]
    /\ opCount' = opCount + 1
    /\ UNCHANGED <<blob, tick, video, ringAtSave>>
    /\ UNCHANGED inputVars

\* faulty variant: a restore also resets the live snapshot
Unserialize_ClearsInput ==
    /\ RingOpEnabled
    /\ blob # Nil
    /\ IF heap[blob].type = "[]inputState"
       THEN LET a == NewAddr IN
            /\ buffers' = a
            /\ heap' = Collect([heap EXCEPT ![a] = DeepCopy(heap[blob])], {a, blob})
            /\ UNCHANGED panicked
       ELSE /\ panicked' = TRUE
            /\ UNCHANGED <<buffers, heap>>
    /\ lastOp' = [op |-> "Unserialize"]
    /\ opCount' = opCount + 1
    /\ polled' = ZeroInput
    /\ UNCHANGED <<blob, tick, video, ringAtSave>>
    /\ UNCHANGED <<NewState, OldState, Released, Pressed, prevNew, sampled, pollCount>>

\* Unserialize(st) with st the blob the caller holds
Unserialize ==
    /\ RingOpEnabled
    /\ blob # Nil
    /\ LET a == NewAddr
           copy == DeepCopy(heap[blob]) IN
       IF copy.type = "[]inputState"
       THEN /\ buffers' = a
            /\ heap' = Collect([heap EXCEPT ![a] = copy], {a, blob})
            /\ UNCHANGED panicked
       ELSE /\ panicked' = TRUE
            /\ UNCHANGED <<buffers, heap>>
    /\ lastOp' = [op |-> "Unserialize"]
    /\ opCount' = opCount + 1
    /\ UNCHANGED <<blob, tick, video, ringAtSave>>
    /\ UNCHANGED inputVars

\* faulty variant: the vector is written to every slot of buffers[port]
setState_WholeEntry(port, st) ==
    /\ RingOpEnabled
    /\ IF port >= Len(Ring) \/ index(0) < 0 \/ index(0) >= MaxPlayers
       THEN /\ panicked' = TRUE
            /\ UNCHANGED heap
       ELSE /\ heap' = [heap EXCEPT ![buffers].elems[port + 1] = [i \in Players |-> st]]
            /\ UNCHANGED panicked
    /\ lastOp' = [op |-> "setState", port |-> port, st |-> st]
    /\ opCount' = opCount + 1
    /\ UNCHANGED <<buffers, blob, tick, video, ringAtSave>>
    /\ UNCHANGED inputVars

setState(port, st) ==
    /\ RingOpEnabled
    /\ IF port >= Len(Ring) \/ index(0) < 0 \/ index(0) >= MaxPlayers
       THEN /\ panicked' = TRUE
            /\ UNCHANGED heap
       ELSE /\ heap' = [heap EXCEPT ![buffers].elems[port + 1][index(0)] = {k \in st : TRUE}]
            /\ UNCHANGED panicked
    /\ lastOp' = [op |-> "setState", port |-> port, st |-> st]
    /\ opCount' = opCount + 1
    /\ UNCHANGED <<buffers, blob, tick, video, ringAtSave>>
    /\ UNCHANGED inputVars

\* one read of the history by a caller, getState(port, t); currentState(port)
\* is the read at t = tick.  lastOp records the arguments and the result
getStateRead(port, t) ==
    /\ ~panicked
    /\ lastOp' = [op |-> "getState", port |-> port, t |-> t, ret |-> getState(port, t)]
    /\ panicked' = ~getState(port, t).ok
    /\ UNCHANGED <<buffers, heap, blob, tick, video, ringAtSave, opCount>>
    /\ UNCHANGED inputVars

\* the loop writes buffers[port][i] for i = 0, 1, ... and stops at the first
\* index outside the array
initializeBuffer(port) ==
    /\ RingOpEnabled
    /\ IF port >= Len(Ring)
       THEN /\ panicked' = TRUE
            /\ UNCHANGED heap
       ELSE /\ heap' = [heap EXCEPT ![buffers].elems[port + 1] =
                          [i \in Players |-> IF i < maxFrames THEN ZeroPlayer ELSE @[i]]]
            /\ panicked' = (maxFrames > MaxPlayers)
    /\ lastOp' = [op |-> "initializeBuffer", port |-> port]
    /\ opCount' = opCount + 1
    /\ UNCHANGED <<buffers, blob, tick, video, ringAtSave>>
    /\ UNCHANGED inputVars

----------------------------------------------------------------------------
(* Video *)

PixelFormat0RGB1555 == 0
PixelFormatXRGB8888 == 1
PixelFormatRGB565 == 2

\* Init -> Configure: a fresh Video has pixFmt = 0 and gets the defaults
VideoInit == [pixFmt |-> "UNSIGNED_SHORT_5_5_5_1", pixType |-> "BGRA", bpp |-> 2,
              rot |-> 0, pitch |-> 0, width |-> 0, height |-> 0, rowLength |-> 0]

\* faulty variant: an unknown format is taken for RGB565
PixelFormatCase_Default(format) ==
    CASE format = PixelFormat0RGB1555 ->
           [ret |-> TRUE, pixFmt |-> "UNSIGNED_SHORT_5_5_5_1", pixType |-> "BGRA", bpp |-> 2]
      [] format = PixelFormatXRGB8888 ->
           [ret |-> TRUE, pixFmt |-> "UNSIGNED_INT_8_8_8_8_REV", pixType |-> "BGRA", bpp |-> 4]
      [] OTHER ->
           [ret |-> TRUE, pixFmt |-> "UNSIGNED_SHORT_5_6_5", pixType |-> "RGB", bpp |-> 2]

\* the switch of SetPixelFormat: the value returned and the fields on return
PixelFormatCase(format) ==
    CASE format = PixelFormat0RGB1555 ->
           [ret |-> TRUE, pixFmt |-> "UNSIGNED_SHORT_5_5_5_1", pixType |-> "BGRA", bpp |-> 2]
      [] format = PixelFormatXRGB8888 ->
           [ret |-> TRUE, pixFmt |-> "UNSIGNED_INT_8_8_8_8_REV", pixType |-> "BGRA", bpp |-> 4]
      [] format = PixelFormatRGB565 ->
           [ret |-> TRUE, pixFmt |-> "UNSIGNED_SHORT_5_6_5", pixType |-> "RGB", bpp |-> 2]
      [] OTHER ->
           [ret |-> FALSE, pixFmt |-> video.pixFmt, pixType |-> video.pixType, bpp |-> video.bpp]

\* the arguments of the deferred gl.PixelStorei are evaluated at the defer
\* statement, before the switch: the row length uses the bpp of entry
SetPixelFormat(format) ==
    /\ ~panicked
    /\ LET c == PixelFormatCase(format) IN
       /\ video' = [video EXCEPT !.pixFmt = c.pixFmt, !.pixType = c.pixType, !.bpp = c.bpp,
                                 !.rowLength = video.pitch \div video.bpp]
       /\ lastOp' = [op |-> "SetPixelFormat", format |-> format, ret |-> c.ret]
    /\ UNCHANGED inputPackage

ResetPitch ==
    /\ ~panicked
    /\ video' = [video EXCEPT !.pitch = 0]
    /\ lastOp' = [op |-> "ResetPitch"]
    /\ UNCHANGED inputPackage

ResetRot ==
    /\ ~panicked
    /\ video' = [video EXCEPT !.rot = 0]
    /\ lastOp' = [op |-> "ResetRot"]
    /\ UNCHANGED inputPackage

Refresh(width, height, pitch) ==
    /\ ~panicked
    /\ video' = [video EXCEPT !.width = width, !.height = height, !.pitch = pitch,
                              !.rowLength = pitch \div video.bpp]
    /\ lastOp' = [op |-> "Refresh"]
    /\ UNCHANGED inputPackage

\* faulty variant: the rotation is stored as given
SetRotation_NoWrap(rot) ==
    /\ ~panicked
    /\ video' = [video EXCEPT !.rot = rot]
    /\ lastOp' = [op |-> "SetRotation", rot |-> rot, ret |-> TRUE]
    /\ UNCHANGED inputPackage

SetRotation(rot) ==
    /\ ~panicked
    /\ video' = [video EXCEPT !.rot = rot % 4]
    /\ lastOp' = [op |-> "SetRotation", rot |-> rot, ret |-> TRUE]
    /\ UNCHANGED inputPackage

----------------------------------------------------------------------------
(* Environment *)

\* state.Global.Tick is advanced by the emulation loop
TickStep ==
    /\ ~panicked
    /\ tick < MaxTick
    /\ tick' = tick + 1
    /\ lastOp' = [op |-> "Tick"]
    /\ UNCHANGED <<buffers, heap, blob, panicked, ringAtSave, opCount, video>>
    /\ UNCHANGED inputVars

\* the content of a save file of n entries: one vector is set in its first
\* entry, every other vector is all-false
SavedElems(n) ==
    [i \in 1 .. n |-> [p \in Players |-> IF i = 1 /\ p = 0 THEN {DeviceIDJoypadUp} ELSE ZeroPlayer]]

\* blobs that do not come from Serialize: slices of several lengths, and a
\* value of another type
ForeignBlobs == {SliceObj(SavedElems(n)) : n \in {MaxPlayers, MismatchDepth, maxFrames}}
                  \cup {OtherObj}

\* the caller reads a blob from a save file
LoadBlob ==
    /\ RingOpEnabled
    /\ \E obj \in ForeignBlobs :
         LET a == NewAddr IN
         /\ heap' = Collect([heap EXCEPT ![a] = obj], {buffers, a})
         /\ blob' = a
    /\ ringAtSave' = [taken |-> FALSE, elems |-> <<>>]
    /\ lastOp' = [op |-> "LoadBlob"]
    /\ opCount' = opCount + 1
    /\ UNCHANGED <<buffers, tick, video, panicked>>
    /\ UNCHANGED inputVars

KeySets == {ks \in SUBSET (DOMAIN keyBinds) : Cardinality(ks) <= MaxKeysDown}

\* one joystick plugged on port jp, in state js
OneJoystick(jp, js) == [p \in Players |-> IF p = jp THEN js ELSE NoJoystick]

\* the devices of the engine-level specification: a configured pad that
\* reports buttons and no axes
ButtonPads == {[name |-> "pad", buttons |-> b, axes |-> <<>>] :
                 b \in SeqsUpTo({0, Press}, MaxButtons)}

\* a poll with settings.Current.MapAxisToDPad off
PollButtons ==
    \E keys \in KeySets, jp \in 0 .. MaxJoyPort, js \in ButtonPads :
       Poll(keys, OneJoystick(jp, js), FALSE)

\* a poll with the keyboard only
PollKeys ==
    \E keys \in {{}, {"KeyDown"}} :
       Poll(keys, [p \in Players |-> NoJoystick], FALSE)

\* axis positions in tenths, and the device names: one configured with
\* bindings, one configured without any, one absent from joyBinds
AxisValues == {-7, -3, 0, 7}
DeviceNames == {"pad", "bare", "unknown"}

Devices == {NoJoystick} \cup
           {[name |-> n, buttons |-> b, axes |-> a] :
              n \in DeviceNames,
              b \in SeqsUpTo({0, Press}, MaxPadButtons),
              a \in SeqsUpTo(AxisValues, MaxAxes)}

\* the first Poll after start, against any keyboard, device and setting;
\* Poll begins with polled = inputState{}, so what it derives from the
\* devices does not depend on the polls before it
PollDevices ==
    /\ pollCount = 0
    /\ \E keys \in {{}, {"KeyDown"}}, jp \in 0 .. MaxJoyPort, js \in Devices,
          mapAxisToDPad \in BOOLEAN :
          Poll(keys, OneJoystick(jp, js), mapAxisToDPad)

\* the arguments of the State calls in the query specification
StatePorts == {localPlayerPort, MaxPlayers}
StateDevices == {DeviceJoypad, DeviceJoypad + 1}
StateIds == {DeviceIDJoypadDown, DeviceIDJoypadA}

StateCalls ==
    \E port \in StatePorts, device \in StateDevices, idx \in 0 .. MaxQueryIndex,
       id \in StateIds : StateCall(port, device, idx, id)

\* the calls of the core and of the frontend into Video
SetPixelFormatCall == \E format \in 0 .. MaxFormat : SetPixelFormat(format)

SetRotationCall == \E rot \in 0 .. MaxRot : SetRotation(rot)

\* frames of 4 x 2 pixels at 2 and at 4 bytes per pixel
RefreshCall == \E pitch \in {8, 16} : Refresh(4, 2, pitch)

\* reads of the current tick, of the tick before and of the tick one
\* buffer length ahead
getStateCall ==
    \E port \in 0 .. MaxRingPort, t \in {tick, tick - 1, tick + maxFrames} :
       getStateRead(port, t)

\* the first Poll after start, with or without a key held: it gives the
\* live snapshot that the buffer operations run next to
PollFirst ==
    /\ pollCount = 0
    /\ PollKeys

SetVectors == {{a} : a \in DeviceIDJoypadUp .. (DeviceIDJoypadUp + MaxVectors - 1)}

setStateCall == \E port \in 0 .. MaxRingPort, st \in SetVectors : setState(port, st)

initializeBufferCall == \E port \in 0 .. MaxRingPort : initializeBuffer(port)

----------------------------------------------------------------------------
(* Specifications *)

Init ==
    /\ polled = ZeroInput
    /\ NewState = ZeroInput
    /\ OldState = ZeroInput
    /\ Released = ZeroInput
    /\ Pressed = ZeroInput
    /\ buffers = 1
    /\ heap = [a \in Addr |-> IF a = 1 THEN SliceObj(<<>>) ELSE FreeObj]
    /\ tick = 0
    /\ blob = Nil
    /\ panicked = FALSE
    /\ prevNew = ZeroInput
    /\ sampled = [keys |-> {}, joys |-> [p \in Players |-> NoJoystick], mapAxisToDPad |-> FALSE]
    /\ pollCount = 0
    /\ lastOp = [op |-> "init"]
    /\ ringAtSave = [taken |-> FALSE, elems |-> <<>>]
    /\ opCount = 0
    /\ video = VideoInit

\* the input engine: Poll against keyboard and button pads
Next == PollButtons

Spec == Init /\ [][Next]_vars

\* the history buffers
NextRing ==
    \/ TickStep
    \/ LoadBlob
    \/ Serialize
    \/ Unserialize
    \/ setStateCall
    \/ initializeBufferCall

SpecRing == Init /\ [][NextRing]_vars

\* the poll cycle next to the history buffers, with a keyboard-only Poll
NextCycle ==
    \/ TickStep
    \/ LoadBlob
    \/ Unserialize
    \/ PollKeys

SpecCycle == Init /\ [][NextCycle]_vars

\* State calls of the core between keyboard-only Polls
NextQuery ==
    \/ PollKeys
    \/ StateCalls

SpecQuery == Init /\ [][NextQuery]_vars

\* the history buffers next to the polled input, at a fixed tick
NextFrame ==
    \/ PollFirst
    \/ LoadBlob
    \/ Serialize
    \/ Unserialize
    \/ setStateCall
    \/ initializeBufferCall
    \/ getStateCall

SpecFrame == Init /\ [][NextFrame]_vars

\* the Video callbacks
NextVideo ==
    \/ SetPixelFormatCall
    \/ SetRotationCall
    \/ ResetRot
    \/ RefreshCall
    \/ ResetPitch

SpecVideo == Init /\ [][NextVideo]_vars

\* one Poll over the device inputs
NextDevices == PollDevices

SpecDevices == Init /\ [][NextDevices]_vars

----------------------------------------------------------------------------
(* Properties of the State callback *)

Bit(b) == IF b THEN Ok(1) ELSE Ok(0)

\* the argument ranges of the callback
QueryPorts == 0 .. MaxQueryPort
QueryDevices == 0 .. MaxDevice
QueryIndexes == 0 .. MaxQueryIndex
QueryIds == (0 .. (ActionLast + MaxIdBeyond)) \cup {254, 255, 256}

C2_OutOfContractIsZero ==
    \A port \in QueryPorts, device \in QueryDevices, idx \in QueryIndexes, id \in QueryIds :
       (port >= MaxPlayers \/ idx # 0 \/ id >= ActionLast)
          => State(port, device, idx, id) = Ok(0)

C2_Witness ==
    /\ DeviceIDJoypadDown \in polled[localPlayerPort]
    /\ State(localPlayerPort, DeviceJoypad, 0, DeviceIDJoypadDown) = Ok(1)
    /\ State(MaxPlayers, DeviceJoypad, 0, DeviceIDJoypadDown) = Ok(0)
    /\ State(localPlayerPort, DeviceJoypad, 1, DeviceIDJoypadDown) = Ok(0)
    /\ State(localPlayerPort, DeviceJoypad, 0, ActionLast) = Ok(0)

\* C3 as stated: State returns 0 for every device kind other than the joypad
\* kind (1), whatever the snapshot holds.
C3_OtherDevicesAreZero ==
    \A port \in QueryPorts, device \in QueryDevices \ {DeviceJoypad}, id \in QueryIds :
       State(port, device, 0, id) = Ok(0)

----------------------------------------------------------------------------
(* Properties of the poll cycle *)

C5_EdgesFromPreviousPoll ==
    \A p \in Players, a \in Actions :
       /\ (a \in Pressed[p]) <=> (a \in NewState[p] /\ a \notin prevNew[p])
       /\ (a \in Released[p]) <=> (a \notin NewState[p] /\ a \in prevNew[p])
       /\ ~(a \in Pressed[p] /\ a \in Released[p])

C5_Witness ==
    /\ pollCount >= 2
    /\ \E p \in Players : Pressed[p] # {} /\ Released[p] # {}
    /\ \E p \in Players : NewState[p] \cap prevNew[p] # {}

\* the three cases of C6 for the actions acts, after a Poll that returned
EdgeSequence(acts) ==
    ~panicked =>
      \A p \in Players, a \in acts :
         /\ (a \in NewState[p] /\ a \notin prevNew[p])
              => /\ State(p, DeviceJoypad, 0, a) = Ok(1)
                 /\ a \in Pressed[p]
                 /\ a \notin Released[p]
         /\ (a \notin NewState[p] /\ a \in prevNew[p])
              => /\ State(p, DeviceJoypad, 0, a) = Ok(0)
                 /\ a \in Released[p]
                 /\ a \notin Pressed[p]
         /\ (a \in NewState[p] /\ a \in prevNew[p])
              => /\ a \notin Pressed[p]
                 /\ a \notin Released[p]

----------------------------------------------------------------------------
(* Properties of the history buffers *)

\* the ticks and offsets handed to index and getState
TickArgs == (0 - MaxOffset) .. MaxOffset

\* C7 as stated (its first half): setState(p, v) at tick t followed by
\* currentState(p) returns v without failing, starting from the initial state.
C7_SetThenGet ==
    lastOp.op = "setState"
       => /\ ~panicked
          /\ currentState(lastOp.port) = Ok(lastOp.st)

\* C8 as stated: the slot computed by index and by getState lies in
\* [0, maxFrames) for every integer tick, and slot(t) = slot(t + maxFrames).
C8_SlotInRange ==
    \A t \in TickArgs :
       /\ index(t) \in 0 .. (maxFrames - 1)
       /\ frameOf(t) \in 0 .. (maxFrames - 1)
       /\ frameOf(t) = frameOf(t + maxFrames)

\* C9: after Unserialize of the blob Serialize returned, getState answers for
\* every valid player and every tick within the depth what it answered when
\* Serialize was called.
C9_RoundTrip ==
    (lastOp.op = "Unserialize" /\ ~panicked /\ ringAtSave.taken)
       => \A p \in Players, t \in (0 - maxFrames) .. maxFrames :
             getState(p, t) = getStateIn(ringAtSave.elems, p, t)

C9_Witness ==
    /\ lastOp.op = "Unserialize"
    /\ ~panicked
    /\ ringAtSave.taken
    /\ \E p \in Players, t \in 0 .. MaxTick :
          /\ getState(p, t).ok
          /\ getState(p, t).val # ZeroPlayer

\* a blob whose number of entries is neither MaxPlayers nor maxFrames, or
\* that is no []inputState at all
ShapeMismatch(obj) ==
    \/ obj.type # "[]inputState"
    \/ Len(obj.elems) \notin {MaxPlayers, maxFrames}

\* C10 as stated: Unserialize of a blob of a mismatching shape fails and
\* leaves the live buffers exactly as they were.
C10_MismatchRejected ==
    [][(lastOp'.op = "Unserialize" /\ ~ringAtSave.taken /\ ShapeMismatch(heap[blob]))
         => /\ panicked'
            /\ buffers' = buffers
            /\ heap'[buffers'] = heap[buffers]]_vars

\* C11: a snapshot shares no storage with the live buffers: the blob is
\* never the live slice, no operation that leaves the caller's blob in
\* place (setState, initializeBuffer, Unserialize) changes its content, and
\* a blob taken by Serialize keeps the content captured at that time.
C11_NoSharedStorage ==
    [][/\ blob' # buffers'
       /\ (blob # Nil /\ blob' = blob) => heap'[blob'] = heap[blob]
       /\ ringAtSave'.taken => heap'[blob'].elems = ringAtSave'.elems]_vars

C11_Witness ==
    /\ lastOp.op = "setState"
    /\ ~panicked
    /\ ringAtSave.taken
    /\ Ring # ringAtSave.elems
    /\ heap[blob].elems = ringAtSave.elems

\* C12 as stated: initializeBuffer(p) completes and afterwards getState(p, t)
\* is the all-false vector for every one of the maxFrames slots.
C12_InitializeClears ==
    lastOp.op = "initializeBuffer"
       => /\ ~panicked
          /\ \A t \in 0 .. (maxFrames - 1) : getState(lastOp.port, t) = Ok(ZeroPlayer)

\* the bits the keyboard gives player p in the last Poll
KeyBits(p) == IF p = localPlayerPort THEN {keyBinds[k] : k \in sampled.keys} ELSE {}

\* C13: a device whose name has no entry in joyBinds has HasBinding false
\* and sets no bit in its player's snapshot, whatever its buttons and axes
\* report and whether MapAxisToDPad is on or off.
C13_UnknownDeviceSilent ==
    \A p \in Players :
       sampled.joys[p].name \notin DOMAIN joyBinds
          => /\ ~HasBinding(sampled.joys[p])
             /\ polled[p] = KeyBits(p)
             /\ (\A q \in Players : sampled.joys[q].name \notin DOMAIN joyBinds) => ~panicked

C13_Witness ==
    /\ lastOp.op = "Poll"
    /\ sampled.mapAxisToDPad
    /\ \E p \in Players :
          /\ sampled.joys[p].name = "unknown"
          /\ sampled.joys[p].buttons = <<Press, Press>>
          /\ sampled.joys[p].axes = <<-7>>
          /\ polled[p] = {}

\* deflection of an axis at position v in direction d beyond threshold th
Deflected(d, th, v) == d * v > th

\* C14 as stated: with thresholds in [0,1], the bit of an axis binding is
\* set by a poll exactly when the axis is deflected in the binding's
\* direction by more than the threshold (binding {axis, 0, -1, 0.5} -> Left:
\* -0.7 sets Left, -0.3 and +0.7 leave it clear).
C14_AxisThreshold ==
    (lastOp.op = "Poll" /\ ~sampled.mapAxisToDPad /\ sampled.keys = {})
       => \A p \in Players :
             LET js == sampled.joys[p]
                 jb == LookupBinds(js.name) IN
             \A k \in DOMAIN jb :
                (k.kind = axis /\ k.index < Len(js.axes))
                   => (jb[k] \in polled[p]
                         <=> Deflected(k.direction, k.threshold, js.axes[k.index + 1]))

\* some button binding of the device to action act is in range and pressed
ButtonSays(js, act) ==
    LET jb == LookupBinds(js.name) IN
    \E k \in DOMAIN jb :
       /\ k.kind = btn
       /\ jb[k] = act
       /\ k.index < Len(js.buttons)
       /\ js.buttons[k.index + 1] = Press

\* C15: with MapAxisToDPad off, Poll completes and the action of a button
\* binding is set for the device's player exactly when one of the button
\* bindings to that action has its index below the reported button count
\* and that button pressed (or the keyboard gives the action to player 0);
\* a binding whose index is out of range is skipped.
C15_ButtonBindings ==
    (lastOp.op = "Poll" /\ ~sampled.mapAxisToDPad)
       => /\ ~panicked
          /\ \A p \in Players :
                LET js == sampled.joys[p]
                    jb == LookupBinds(js.name) IN
                \A k \in DOMAIN jb :
                   k.kind = btn
                      => (jb[k] \in polled[p]
                            <=> (ButtonSays(js, jb[k]) \/ jb[k] \in KeyBits(p)))

C15_Witness ==
    /\ lastOp.op = "Poll"
    /\ ~sampled.mapAxisToDPad
    /\ \E p \in Players :
          /\ sampled.joys[p].name = "pad"
          /\ sampled.joys[p].buttons = <<0, Press>>
          /\ DeviceIDJoypadA \in polled[p]
          /\ DeviceIDJoypadB \notin polled[p]

\* C16 as stated: every Poll runs to completion, for every combination of
\* device inputs and settings, and leaves no partially polled snapshot.
C16_PollCompletes ==
    lastOp.op = "Poll" => (~panicked /\ NewState = polled)

\* C18 as stated: an axis binding sets its bit whenever its index is within
\* the reported axis count and its predicate holds, whatever the button
\* count.
C18_AxisWithoutButtons ==
    (lastOp.op = "Poll" /\ ~sampled.mapAxisToDPad)
       => \A p \in Players :
             LET js == sampled.joys[p]
                 jb == LookupBinds(js.name) IN
             \A k \in DOMAIN jb :
                (/\ k.kind = axis
                 /\ k.index < Len(js.axes)
                 /\ k.direction * js.axes[k.index + 1] > k.threshold * k.direction)
                   => jb[k] \in polled[p]

\* C20: the keyboard acts on player 0 only: after a Poll every pressed
\* bound key has its action set for player 0, connected joystick or not,
\* and the snapshot of every other player is what the devices alone give.
C20_KeyboardLocalOnly ==
    lastOp.op = "Poll"
       => /\ \A k \in sampled.keys : keyBinds[k] \in polled[localPlayerPort]
          /\ \E o \in pollJoypads(ZeroInput, sampled.joys, sampled.mapAxisToDPad) :
                \A p \in Players \ {localPlayerPort} : polled[p] = o.polled[p]

C20_Witness ==
    /\ lastOp.op = "Poll"
    /\ sampled.keys = {"KeyDown"}
    /\ \A p \in Players : sampled.joys[p] = NoJoystick
    /\ polled[localPlayerPort] = {DeviceIDJoypadDown}
    /\ \A p \in Players \ {localPlayerPort} : polled[p] = {}

\* C19: Poll overwrites the live snapshot: after any Poll, polled is what
\* the keyboard and the devices sampled in that Poll give on an all-false
\* snapshot, and NewState equals it; a bit that an earlier Poll set and
\* whose input is no longer active is false.
C19_PollOverwrites ==
    lastOp.op = "Poll"
       => \E o \in pollJoypads(pollKeyboard(ZeroInput, sampled.keys),
                               sampled.joys, sampled.mapAxisToDPad) :
             /\ polled = o.polled
             /\ o.ok => NewState = polled

C19_Witness ==
    /\ lastOp.op = "Poll"
    /\ pollCount >= 2
    /\ \E p \in Players :
          /\ polled[p] # {}
          /\ \E a \in prevNew[p] : a \notin polled[p]

\* C17: State is read-only and idempotent: a State call leaves polled,
\* NewState, OldState, Pressed, Released and the history buffers unchanged,
\* the value it returned is the value the same call returns again
\* afterwards, and two calls in a row with the same arguments return the
\* same value.
C17_StateReadOnly ==
    [][lastOp'.op = "State"
         => /\ UNCHANGED <<polled, NewState, OldState, Pressed, Released, buffers, heap>>
            /\ \A port \in StatePorts, device \in StateDevices,
                  idx \in 0 .. MaxQueryIndex, id \in StateIds :
                  (/\ lastOp'.port = port
                   /\ lastOp'.device = device
                   /\ lastOp'.idx = idx
                   /\ lastOp'.id = id)
                     => /\ lastOp'.ret = (State(port, device, idx, id))'
                        /\ (/\ lastOp.op = "State"
                            /\ lastOp.port = port
                            /\ lastOp.device = device
                            /\ lastOp.idx = idx
                            /\ lastOp.id = id)
                              => lastOp'.ret = lastOp.ret]_vars

C17_Witness ==
    /\ lastOp.op = "State"
    /\ lastOp.ret = Ok(1)
    /\ pollCount >= 1
    /\ NewState = polled

KnownFormats == {PixelFormat0RGB1555, PixelFormatXRGB8888, PixelFormatRGB565}

\* C26: SetPixelFormat returns true and sets (pixFmt, pixType, bpp) for
\* exactly the formats 0RGB1555 (bpp 2), XRGB8888 (bpp 4) and RGB565
\* (bpp 2); for any other format it returns false and leaves pixFmt,
\* pixType and bpp as they were.
C26_SetPixelFormat ==
    [][lastOp'.op = "SetPixelFormat"
         => /\ lastOp'.ret <=> lastOp'.format \in KnownFormats
            /\ lastOp'.format = PixelFormat0RGB1555
                  => <<video'.pixFmt, video'.pixType, video'.bpp>>
                        = <<"UNSIGNED_SHORT_5_5_5_1", "BGRA", 2>>
            /\ lastOp'.format = PixelFormatXRGB8888
                  => <<video'.pixFmt, video'.pixType, video'.bpp>>
                        = <<"UNSIGNED_INT_8_8_8_8_REV", "BGRA", 4>>
            /\ lastOp'.format = PixelFormatRGB565
                  => <<video'.pixFmt, video'.pixType, video'.bpp>>
                        = <<"UNSIGNED_SHORT_5_6_5", "RGB", 2>>
            /\ lastOp'.format \notin KnownFormats
                  => <<video'.pixFmt, video'.pixType, video'.bpp>>
                        = <<video.pixFmt, video.pixType, video.bpp>>]_vars

C26_Witness ==
    /\ lastOp.op = "SetPixelFormat"
    /\ lastOp.format \notin KnownFormats
    /\ ~lastOp.ret
    /\ video.bpp = 4

\* C27: the stored rotation is always one of 0, 1, 2, 3: SetRotation(r)
\* stores r mod 4 and returns true for every r, ResetRot stores 0.
C27_RotationInRange ==
    /\ video.rot \in 0 .. 3
    /\ lastOp.op = "SetRotation" => (lastOp.ret /\ video.rot = lastOp.rot % 4)
    /\ lastOp.op = "ResetRot" => video.rot = 0

C27_Witness ==
    /\ lastOp.op = "SetRotation"
    /\ lastOp.rot >= 4
    /\ video.rot = 2

\* C21 as stated: with MapAxisToDPad on, a connected recognised device
\* with axes 0 and 1 gets Left for axis0 < -0.5, Right for axis0 > 0.5,
\* Down for axis1 > 0.5 and Up for axis1 < -0.5, whatever its binding set,
\* the empty one included; with the mode off every set bit comes from a
\* key or from a binding.
C21_DPadFromAxes ==
    lastOp.op = "Poll"
       => \A p \in Players :
             LET js == sampled.joys[p]
                 jb == LookupBinds(js.name) IN
             /\ (/\ sampled.mapAxisToDPad
                 /\ HasBinding(js)
                 /\ Len(js.buttons) > 0
                 /\ Len(js.axes) >= 2)
                   => /\ js.axes[1] < -5 => DeviceIDJoypadLeft \in polled[p]
                      /\ js.axes[1] > 5 => DeviceIDJoypadRight \in polled[p]
                      /\ js.axes[2] > 5 => DeviceIDJoypadDown \in polled[p]
                      /\ js.axes[2] < -5 => DeviceIDJoypadUp \in polled[p]
             /\ ~sampled.mapAxisToDPad
                   => polled[p] \subseteq KeyBits(p) \cup {jb[k] : k \in DOMAIN jb}

\* C22 as stated: after the k-th Poll returns (k >= 2), OldState is the
\* NewState that Poll k-1 produced and NewState is the state of frame k.
C22_OldStateIsPreviousFrame ==
    (lastOp.op = "Poll" /\ ~panicked /\ pollCount >= 2)
       => (OldState = prevNew /\ NewState = polled)

\* C23: setState(p, v) changes only slot index(0) of buffers[p]: every other
\* slot of p, every slot of every other player, the live snapshot and the
\* edge vectors stay as they are; getState and currentState change nothing;
\* and a stored vector changes only in a setState, initializeBuffer or
\* Unserialize.
C23_SetStateFrame ==
    [][/\ lastOp'.op = "setState"
            => /\ UNCHANGED <<polled, NewState, OldState, Pressed, Released, buffers>>
               /\ Len(Ring') = Len(Ring)
               /\ \A i \in 1 .. Len(Ring) : \A s \in Players :
                     (i # lastOp'.port + 1 \/ s # index(0)) => Ring'[i][s] = Ring[i][s]
       /\ lastOp'.op = "getState"
            => UNCHANGED <<polled, NewState, OldState, Pressed, Released, buffers, heap, tick>>
       /\ lastOp'.op \notin {"setState", "initializeBuffer", "Unserialize"}
            => Ring' = Ring]_vars

C23_Witness ==
    /\ lastOp.op = "setState"
    /\ ~panicked
    /\ lastOp.port = 1
    /\ Ring[2][index(0)] = lastOp.st
    /\ Ring[1][index(0)] = {DeviceIDJoypadUp}
    /\ polled[localPlayerPort] = {DeviceIDJoypadDown}

\* C24: Serialize, Unserialize and initializeBuffer leave polled, NewState,
\* OldState, Pressed and Released unchanged, so every State query returns
\* the same value right before and right after them.
C24_RestoreKeepsInput ==
    [][lastOp'.op \in {"Serialize", "Unserialize", "initializeBuffer"}
         => /\ UNCHANGED <<polled, NewState, OldState, Pressed, Released>>
            /\ \A port \in StatePorts, device \in StateDevices,
                  idx \in 0 .. MaxQueryIndex, id \in StateIds :
                  (State(port, device, idx, id))' = State(port, device, idx, id)]_vars

C24_Witness ==
    /\ lastOp.op = "Unserialize"
    /\ ~panicked
    /\ Len(Ring) > 0
    /\ polled[localPlayerPort] = {DeviceIDJoypadDown}
    /\ State(localPlayerPort, DeviceJoypad, 0, DeviceIDJoypadDown) = Ok(1)

\* the tick of the window of maxFrames ticks around the current tick that is
\* nearest to t
ClampTick(t) == IF t > tick THEN tick + (maxFrames - 1) ELSE tick - (maxFrames - 1)

\* C25 as stated: a read of a tick that lies maxFrames or more away from the
\* current tick is rejected, or answered as the read of the nearest tick of
\* the window, never with the vector stored for another tick.
C25_FarReadNotWrapped ==
    \A port \in 0 .. MaxRingPort, t \in TickArgs :
       (t - tick >= maxFrames \/ tick - t >= maxFrames)
          => \/ ~getState(port, t).ok
             \/ getState(port, t) = getState(port, ClampTick(t))

====
